---------------------------- MODULE Spec2Model ----------------------------
(***************************************************************************)
(* The collection engine of graphdb (createCollection): the document       *)
(* store, the per-field indexes, the query planner and the optimistic      *)
(* write / revert protocol around the synchronizers.                       *)
(***************************************************************************)
EXTENDS Integers, Sequences, FiniteSets, TLC

\* ---------------------------------------------------------------- bounds
MaxIds == 2
MaxVal == 1
MaxTime == 1
MaxPending == 1
MaxPopulate == 2
MaxFns == 1
MaxTokens == 1
MaxEventIds == 1
MaxSubs == 2
MaxOverlap == 2
MaxSkip == 2
MaxLimit == 1
MaxSort == 3

\* The empty identifier ('' or a missing _id): falsy in `!id` and `!doc._id`.
NoId == 0

Ids == 1..MaxIds
Fields == {"f", "g"}
Kinds == {"create", "update", "remove"}
EventTypes == Kinds \cup {"populate", "syncError"}
Fns == 1..MaxFns

\* A JavaScript value with its typeof.
Num(n) == [t |-> "number", v |-> n]
Str(s) == [t |-> "string", v |-> s]
Values == {Num(n) : n \in 0..MaxVal}

Undefined == [t |-> "undefined", v |-> 0]

\* null / undefined as the result of documents.get(id) or read(id).
NoDoc == [none |-> TRUE]

\* (doc as Record<string, unknown>)[field]
Field(doc, field) == IF field \in DOMAIN doc THEN doc[field] ELSE Undefined

VARIABLES
  indexedFields,  \* options.indexes, fixed at construction
  syncers,        \* the operation kinds that have a synchronizer, fixed at construction
  documents,      \* Map<string, Doc>: the entries [k, v] in insertion order
  indexes,        \* Map<field, Map<value, Set<docId>>>
  pending,        \* the writes suspended on `await syncers.<kind>(...)`
  clock,          \* the last value Date.now() returned
  listenerSets,   \* the Set objects of handlers that on / listen created, by identity
  onListeners,    \* Map<EventType, Set<fn>>: event -> identity of its Set
  docListeners,   \* Map<string, Set<fn>>: document id -> identity of its Set
  tokens,         \* the cancellation closures returned so far, in the order returned
  delivered,      \* the handler calls the last handler made, in order
  outcome,        \* how the last call or continuation ended, as its caller sees it
  bulk,           \* the updateMany / removeMany call in progress or last finished
  applied         \* the utility function last applied on its own: arguments and result

store == <<documents, indexes, pending, clock>>
registry == <<listenerSets, onListeners, docListeners, tokens>>
config == <<indexedFields, syncers>>
vars == <<config, store, registry, delivered, outcome, bulk, applied>>

\* ------------------------------------------------------- Map and Set
\* documents.has(id)
Has(docs, id) == \E i \in 1..Len(docs) : docs[i].k = id

\* documents.get(id) ?? null
read(docs, id) ==
  IF Has(docs, id)
    THEN docs[CHOOSE i \in 1..Len(docs) : docs[i].k = id].v
    ELSE NoDoc

\* documents.set(id, doc): an existing key keeps its place, a new key goes last.
MapSet(docs, id, doc) ==
  IF Has(docs, id)
    THEN [i \in 1..Len(docs) |-> IF docs[i].k = id THEN [k |-> id, v |-> doc] ELSE docs[i]]
    ELSE Append(docs, [k |-> id, v |-> doc])

\* documents.delete(id)
MapDelete(docs, id) == SelectSeq(docs, LAMBDA e : e.k # id)

\* documents.size
count(docs) == Len(docs)

\* documents.has(id)
exists(docs, id) == Has(docs, id)

\* A Set<string> as the sequence of its members in insertion order.
SeqHas(s, x) == \E i \in 1..Len(s) : s[i] = x
SetAdd(s, x) == IF SeqHas(s, x) THEN s ELSE Append(s, x)
SetDelete(s, x) == SelectSeq(s, LAMBDA y : y # x)
Members(s) == {s[i] : i \in 1..Len(s)}

\* ------------------------------------------------------- index helpers
\* One field's bucket map: a function from the values that have a bucket to the
\* bucket's Set of identifiers.
NoBuckets == [x \in {} |-> <<>>]

BucketAdd(bucket, val, id) ==
  IF val \in DOMAIN bucket
    THEN [bucket EXCEPT ![val] = SetAdd(@, id)]
    ELSE [x \in DOMAIN bucket \cup {val} |-> IF x = val THEN <<id>> ELSE bucket[x]]

\* A removal that leaves the emptied Set under its key.
BucketRemoveKeepsKey(bucket, val, id) ==
  IF val \in DOMAIN bucket THEN [bucket EXCEPT ![val] = SetDelete(@, id)] ELSE bucket

BucketRemove(bucket, val, id) ==
  IF val \in DOMAIN bucket
    THEN LET set == SetDelete(bucket[val], id)
         IN  IF Len(set) = 0
               THEN [x \in DOMAIN bucket \ {val} |-> bucket[x]]
               ELSE [bucket EXCEPT ![val] = set]
    ELSE bucket

indexAdd(idx, doc) ==
  [field \in DOMAIN idx |-> BucketAdd(idx[field], Field(doc, field), doc._id)]

indexRemove(idx, doc) ==
  [field \in DOMAIN idx |-> BucketRemove(idx[field], Field(doc, field), doc._id)]

indexUpdate(idx, before, after) ==
  [field \in DOMAIN idx |->
    IF Field(before, field) = Field(after, field)
      THEN idx[field]
      ELSE BucketAdd(BucketRemove(idx[field], Field(before, field), before._id),
                     Field(after, field), after._id)]

indexClear(idx) == [field \in DOMAIN idx |-> NoBuckets]

RECURSIVE indexAddAll(_, _, _)
indexAddAll(idx, docs, i) ==
  IF i > Len(docs) THEN idx ELSE indexAddAll(indexAdd(idx, docs[i].v), docs, i + 1)

indexRebuild(idx, docs) == indexAddAll(indexClear(idx), docs, 1)


\* ------------------------------------------------------- where-clauses
\* A where-clause is the sequence of its Object.entries: [key, clause]. A clause
\* is a literal value, [type |-> "literal", v |-> value], or an operator object,
\* [type |-> "object", ops |-> the sequence of its entries [op, operand]]. An
\* operand is a value, undefined, or an array of values.
Arr(a) == [t |-> "array", v |-> a]
Lit(x) == [type |-> "literal", v |-> x]
Obj(ops) == [type |-> "object", ops |-> ops]
Re(regex) == [type |-> "regexp", v |-> regex]
Op(name, operand) == [op |-> name, operand |-> operand]

isEmptyObject(where) == Len(where) = 0

\* a === b for values: arrays are objects, equal only by reference.
StrictEq(a, b) == a.t = b.t /\ a.t # "array" /\ a.v = b.v

\* operand.includes(value) for an array operand.
ArrayIncludes(arr, value) == \E i \in 1..Len(arr) : StrictEq(arr[i], value)

\* Strings are sequences of character codes.
startsWith(str, part) ==
  Len(part) <= Len(str) /\ SubSeq(str, 1, Len(part)) = part
endsWith(str, part) ==
  Len(part) <= Len(str) /\ SubSeq(str, Len(str) - Len(part) + 1, Len(str)) = part
includes(str, part) ==
  \E i \in 0..Len(str) :
    i + Len(part) <= Len(str) /\ SubSeq(str, i + 1, i + Len(part)) = part

\* A RegExp without flags whose source is a literal text: [t |-> "regexp",
\* v |-> the text]. test(str) then holds when str contains the text.
Regex(source) == [t |-> "regexp", v |-> source]
test(regex, str) == includes(str, regex.v)

\* String(value): a number becomes its decimal digits (character codes 10..19),
\* undefined becomes the text "undefined" (codes 20..25), a string is itself.
RECURSIVE Digits(_)
Digits(n) == IF n < 10 THEN <<10 + n>> ELSE Digits(n \div 10) \o <<10 + (n % 10)>>
UndefinedText == <<20, 21, 22, 23, 24, 25, 21, 23, 22>>
String(value) ==
  IF value.t = "number" THEN Digits(value.v)
  ELSE IF value.t = "undefined" THEN UndefinedText
  ELSE value.v

\* One entry of an operator object against the field value: TRUE to go on to the
\* next entry (`continue`), FALSE for `return false`.
opHolds(op, operand, value) ==
  IF operand.t = "undefined" THEN TRUE
  ELSE IF op = "match" /\ operand.t = "regexp" THEN test(operand, String(value))
  ELSE IF op = "in" /\ operand.t = "array" THEN ArrayIncludes(operand.v, value)
  ELSE IF op = "eq" THEN StrictEq(value, operand)
  ELSE IF op = "notEq" THEN ~StrictEq(value, operand)
  ELSE IF operand.t = "number" /\ value.t = "number" THEN
    IF op = "gt" THEN value.v > operand.v
    ELSE IF op = "gte" THEN value.v >= operand.v
    ELSE IF op = "lt" THEN value.v < operand.v
    ELSE IF op = "lte" THEN value.v <= operand.v
    ELSE TRUE
  ELSE IF operand.t = "string" /\ value.t = "string" THEN
    IF op = "includes" THEN includes(value.v, operand.v)
    ELSE IF op = "startsWith" THEN startsWith(value.v, operand.v)
    ELSE IF op = "endsWith" THEN endsWith(value.v, operand.v)
    ELSE TRUE
  ELSE FALSE

whereChecker(property, clause, doc) ==
  LET value == Field(doc, property)
  IN  IF clause.type = "regexp"
        THEN test(clause.v, String(value))
      ELSE IF clause.type = "literal"
        THEN StrictEq(value, clause.v)
        ELSE \A i \in 1..Len(clause.ops) :
               opHolds(clause.ops[i].op, clause.ops[i].operand, value)

\* The loop over Object.entries(where) that query and findOne both run.
Matches(where, doc) ==
  \A i \in 1..Len(where) : whereChecker(where[i].key, where[i].clause, doc)

\* ------------------------------------------------------- query planner
HasOp(ops, name) == \E i \in 1..Len(ops) : ops[i].op = name
OperandOf(ops, name) == ops[CHOOSE i \in 1..Len(ops) : ops[i].op = name].operand

\* bucket.get(v), copied: `set ? new Set(set) : new Set()`
BucketGet(bucket, val) ==
  IF val.t # "array" /\ val \in DOMAIN bucket THEN bucket[val] ELSE <<>>

RECURSIVE SetAddAll(_, _, _)
SetAddAll(s, xs, i) ==
  IF i > Len(xs) THEN s ELSE SetAddAll(SetAdd(s, xs[i]), xs, i + 1)

RECURSIVE UnionOfBuckets(_, _, _, _)
UnionOfBuckets(bucket, vals, i, union) ==
  IF i > Len(vals) THEN union
  ELSE UnionOfBuckets(bucket, vals, i + 1,
                      SetAddAll(union, BucketGet(bucket, vals[i]), 1))

\* The candidate set one where entry contributes: <<set>>, or <<>> for `continue`.
CandidateOf(idx, key, clause) ==
  IF key \notin DOMAIN idx THEN <<>>
  ELSE IF clause.type = "literal" THEN <<BucketGet(idx[key], clause.v)>>
  ELSE IF HasOp(clause.ops, "eq") /\ OperandOf(clause.ops, "eq").t # "undefined"
    THEN <<BucketGet(idx[key], OperandOf(clause.ops, "eq"))>>
  ELSE IF HasOp(clause.ops, "in") /\ OperandOf(clause.ops, "in").t = "array"
    THEN <<UnionOfBuckets(idx[key], OperandOf(clause.ops, "in").v, 1, <<>>)>>
  ELSE <<>>

RECURSIVE CandidateSets(_, _, _)
CandidateSets(idx, where, i) ==
  IF i > Len(where) THEN <<>>
  ELSE CandidateOf(idx, where[i].key, where[i].clause) \o CandidateSets(idx, where, i + 1)

\* candidateSets.sort((a, b) => a.size - b.size): a stable sort.
RECURSIVE InsertBySize(_, _)
InsertBySize(sorted, s) ==
  IF Len(sorted) = 0 THEN <<s>>
  ELSE IF Len(sorted[Len(sorted)]) <= Len(s) THEN Append(sorted, s)
  ELSE Append(InsertBySize(SubSeq(sorted, 1, Len(sorted) - 1), s), sorted[Len(sorted)])

RECURSIVE SortBySize(_, _, _)
SortBySize(sets, i, sorted) ==
  IF i > Len(sets) THEN sorted ELSE SortBySize(sets, i + 1, InsertBySize(sorted, sets[i]))

RECURSIVE Intersect(_, _, _)
Intersect(result, sets, i) ==
  IF i > Len(sets) \/ (i > 2 /\ Len(result) = 0) THEN result
  ELSE Intersect(SelectSeq(result, LAMBDA id : SeqHas(sets[i], id)), sets, i + 1)

\* null is [null |-> TRUE]; a candidate set is [null |-> FALSE, ids |-> its members in order].
getCandidateIds(fields, idx, where) ==
  IF fields = {} THEN [null |-> TRUE, ids |-> <<>>]
  ELSE LET candidateSets == CandidateSets(idx, where, 1)
       IN  IF Len(candidateSets) = 0 THEN [null |-> TRUE, ids |-> <<>>]
           ELSE LET sorted == SortBySize(candidateSets, 1, <<>>)
                IN  [null |-> FALSE, ids |-> Intersect(sorted[1], sorted, 2)]

DocValues(docs) == [i \in 1..Len(docs) |-> docs[i].v]

\* A candidate loop that trusts the index: it keeps every candidate in the store.
RECURSIVE CandidateDocsTrusted(_, _, _, _)
CandidateDocsTrusted(docs, where, ids, i) ==
  IF i > Len(ids) THEN <<>>
  ELSE LET doc == read(docs, ids[i])
       IN  (IF doc # NoDoc THEN <<doc>> ELSE <<>>)
           \o CandidateDocsTrusted(docs, where, ids, i + 1)

RECURSIVE CandidateDocs(_, _, _, _)
CandidateDocs(docs, where, ids, i) ==
  IF i > Len(ids) THEN <<>>
  ELSE LET doc == read(docs, ids[i])
       IN  (IF doc # NoDoc /\ Matches(where, doc) THEN <<doc>> ELSE <<>>)
           \o CandidateDocs(docs, where, ids, i + 1)

fullScan(docs, where) == SelectSeq(DocValues(docs), LAMBDA doc : Matches(where, doc))

\* query(where) with no options.
query(fields, idx, docs, where) ==
  IF isEmptyObject(where) THEN DocValues(docs)
  ELSE LET candidateIds == getCandidateIds(fields, idx, where)
       IN  IF ~candidateIds.null
             THEN CandidateDocs(docs, where, candidateIds.ids, 1)
             ELSE fullScan(docs, where)

\* a.localeCompare(b) for strings of character codes, as the comparison of the
\* codes from left to right.
RECURSIVE localeCompare(_, _)
localeCompare(a, b) ==
  IF Len(a) = 0 \/ Len(b) = 0 THEN Len(a) - Len(b)
  ELSE IF Head(a) # Head(b) THEN Head(a) - Head(b)
  ELSE localeCompare(Tail(a), Tail(b))

\* The comparator sortDocuments passes to sort, from the i-th entry of orderBy on.
RECURSIVE compareDocs(_, _, _, _)
compareDocs(a, b, keys, i) ==
  IF i > Len(keys) THEN 0
  ELSE LET va == Field(a, keys[i].key)
           vb == Field(b, keys[i].key)
           cmp == IF va.t = "number" /\ vb.t = "number" THEN va.v - vb.v
                  ELSE IF va.t = "string" /\ vb.t = "string" THEN localeCompare(va.v, vb.v)
                  ELSE 0
       IN  IF cmp # 0 THEN (IF keys[i].dir = "ASC" THEN cmp ELSE 0 - cmp)
           ELSE compareDocs(a, b, keys, i + 1)

\* A sort that puts an element before the elements it compares equal to.
RECURSIVE InsertBeforeEqual(_, _, _)
InsertBeforeEqual(sorted, doc, keys) ==
  IF Len(sorted) = 0 THEN <<doc>>
  ELSE IF compareDocs(sorted[Len(sorted)], doc, keys, 1) >= 0
    THEN Append(InsertBeforeEqual(SubSeq(sorted, 1, Len(sorted) - 1), doc, keys),
                sorted[Len(sorted)])
    ELSE Append(sorted, doc)

\* Array.prototype.sort is stable: an element goes after the elements that do not
\* compare greater than it.
RECURSIVE InsertSorted(_, _, _)
InsertSorted(sorted, doc, keys) ==
  IF Len(sorted) = 0 THEN <<doc>>
  ELSE IF compareDocs(sorted[Len(sorted)], doc, keys, 1) > 0
    THEN Append(InsertSorted(SubSeq(sorted, 1, Len(sorted) - 1), doc, keys), sorted[Len(sorted)])
    ELSE Append(sorted, doc)
RECURSIVE SortFrom(_, _, _, _)
SortFrom(docs, keys, i, sorted) ==
  IF i > Len(docs) THEN sorted
  ELSE SortFrom(docs, keys, i + 1, InsertSorted(sorted, docs[i], keys))

\* sortDocuments(docs, orderBy); orderBy is the sequence of its entries [key, dir].
sortDocuments(docs, orderBy) ==
  IF Len(orderBy) = 0 THEN docs ELSE SortFrom(docs, orderBy, 1, <<>>)

\* The comparator is a consistent comparison function on the documents: ordering
\* them by it is transitive.
ConsistentOn(docs, keys) ==
  \A i, j, k \in 1..Len(docs) :
    (compareDocs(docs[i], docs[j], keys, 1) <= 0 /\ compareDocs(docs[j], docs[k], keys, 1) <= 0)
      => compareDocs(docs[i], docs[k], keys, 1) <= 0

\* The rearrangements of a sequence.
Rearrangements(seq) ==
  {[i \in 1..Len(seq) |-> seq[p[i]]] :
     p \in {q \in [1..Len(seq) -> 1..Len(seq)] : \A i, j \in 1..Len(seq) : q[i] = q[j] => i = j}}

\* What sortDocuments(docs, orderBy) may return: with a comparator that is not
\* consistent on docs the order Array.prototype.sort leaves is implementation-defined.
sortResults(docs, orderBy) ==
  IF Len(orderBy) = 0 \/ ConsistentOn(docs, orderBy)
    THEN {sortDocuments(docs, orderBy)}
    ELSE Rearrangements(docs)

\* QueryOptions: each option is given (set) or left out.
Unset == [set |-> FALSE, v |-> 0]
UnsetOrderBy == [set |-> FALSE, v |-> <<>>]
Given(v) == [set |-> TRUE, v |-> v]
Options(orderBy, skip, limit) == [orderBy |-> orderBy, skip |-> skip, limit |-> limit]

\* results.slice(start), results.slice(0, end) for start, end >= 0
SliceFrom(results, start) == SubSeq(results, start + 1, Len(results))
SliceTo(results, end) == SubSeq(results, 1, IF end < Len(results) THEN end ELSE Len(results))

\* The part of query after the filter: orderBy, then skip, then limit.
queryOptions(results, options) ==
  LET sorted == IF options.orderBy.set THEN sortDocuments(results, options.orderBy.v)
                ELSE results
  IN  IF options.skip.set /\ options.skip.v > 0 /\ options.skip.v >= Len(sorted) THEN <<>>
      ELSE LET skipped == IF options.skip.set /\ options.skip.v > 0
                            THEN SliceFrom(sorted, options.skip.v) ELSE sorted
           IN  IF options.limit.set /\ options.limit.v >= 0
                 THEN SliceTo(skipped, options.limit.v) ELSE skipped

\* query(where, options)
queryWith(fields, idx, docs, where, options) ==
  queryOptions(query(fields, idx, docs, where), options)

findOne(docs, where) ==
  IF isEmptyObject(where)
    THEN (IF Len(docs) = 0 THEN NoDoc ELSE docs[1].v)
    ELSE LET hits == fullScan(docs, where)
         IN  IF Len(hits) = 0 THEN NoDoc ELSE hits[1]

\* ------------------------------------------------------- documents and writes
\* A Doc: { _id, createdAt, updatedAt } & T, with T = { f, g }. ref is the identity
\* of the JavaScript object (what `===` compares).
Doc(id, ref, f, g, createdAt, updatedAt) ==
  [_id |-> id, ref |-> ref, f |-> f, g |-> g, createdAt |-> createdAt, updatedAt |-> updatedAt]

IsDoc(d) == "_id" \in DOMAIN d

\* The content of a document, whatever object holds it.
ValueOf(d) == IF IsDoc(d) THEN [x \in DOMAIN d \ {"ref"} |-> d[x]] ELSE d

\* { ...before, ...patch, updatedAt: now } as a new object
Spread(before, patch, ref, now) ==
  [field \in DOMAIN before |->
    IF field = "updatedAt" THEN now
    ELSE IF field = "ref" THEN ref
    ELSE IF field \in DOMAIN patch THEN patch[field]
    ELSE before[field]]

\* What a write holds on its stack across the await: create holds doc (after),
\* update holds before, after and patch, remove holds doc (before).
NoPatch == [x \in {} |-> Num(0)]
Write(kind, id, before, after, patch) ==
  [kind |-> kind, id |-> id, before |-> before, after |-> after, patch |-> patch]

\* A suspended write also records what ran since it was suspended ("nothing", another
\* operation on the "collection", another operation on its "document"), while
\* nothing has, the collection as it was when the write was called, and whether the
\* only thing that ran on its document is one other suspended write ("none": no
\* other write, "pending": that write is suspended too, "settled": it has settled,
\* "more": anything else).
NoSnap == [none |-> TRUE]
Suspend(w) ==
  [kind |-> w.kind, id |-> w.id, before |-> w.before, after |-> w.after, patch |-> w.patch,
   touched |-> "nothing", snap |-> [docs |-> documents, idx |-> indexes], peer |-> "none"]

\* Another operation ran on the documents `ids` while the writes ps were suspended.
Touch(ps, ids) ==
  {[p EXCEPT !.snap = NoSnap,
             !.touched = IF p.id \in ids \/ @ = "document" THEN "document" ELSE "collection",
             !.peer = IF p.id \in ids THEN "more" ELSE @]
     : p \in ps}

\* The write w is the second write to its document: one other write is suspended
\* on it, and nothing else ran on the document since that one was called.
Paired(w) ==
  /\ Cardinality({p \in pending : p.id = w.id}) = 1
  /\ \A p \in pending : p.id = w.id => (p.touched # "document" /\ p.peer = "none")

\* The suspended writes once w has been suspended next to them.
Join(w) ==
  {[p EXCEPT !.peer = IF p.id = w.id /\ Paired(w) THEN "pending" ELSE @]
     : p \in Touch(pending, {w.id})}
    \cup {[Suspend(w) EXCEPT !.peer = IF Paired(w) THEN "pending"
                                     ELSE IF \E p \in pending : p.id = w.id THEN "more"
                                     ELSE "none"]}

\* The suspended writes once the continuation of w has run.
Leave(w) ==
  {[p EXCEPT !.peer = IF p.id = w.id /\ w.peer = "pending" THEN "settled" ELSE @]
     : p \in Touch(pending \ {w}, {w.id})}

\* Object identities are compared only for equality: after each handler the live
\* objects are renumbered in the order store, then suspended writes.
KeyRef(p) ==
  IF p.kind = "remove"
    THEN (IF IsDoc(p.before) THEN 2 * p.before.ref + 1 ELSE 1)
    ELSE 2 * p.after.ref
SortedWrites(ps) ==
  CHOOSE seq \in [1..Cardinality(ps) -> ps] :
    \A i, j \in 1..Cardinality(ps) : i < j => KeyRef(seq[i]) < KeyRef(seq[j])
RefsOf(d) == IF IsDoc(d) THEN <<d.ref>> ELSE <<>>
RECURSIVE WriteRefs(_, _)
WriteRefs(seq, i) ==
  IF i > Len(seq) THEN <<>>
  ELSE RefsOf(seq[i].before) \o RefsOf(seq[i].after) \o WriteRefs(seq, i + 1)
RefOrder(docs, ps) ==
  SetAddAll(<<>>, [i \in 1..Len(docs) |-> docs[i].v.ref] \o WriteRefs(SortedWrites(ps), 1), 1)
Renumber(d, order) ==
  IF IsDoc(d) THEN [d EXCEPT !.ref = CHOOSE i \in 1..Len(order) : order[i] = @] ELSE d
RenumberStore(docs, order) ==
  [i \in 1..Len(docs) |-> [k |-> docs[i].k, v |-> Renumber(docs[i].v, order)]]
RenumberWrite(p, order) ==
  [p EXCEPT !.before = Renumber(@, order), !.after = Renumber(@, order),
            !.snap = IF p.touched = "nothing"
                       THEN [docs |-> RenumberStore(@.docs, order), idx |-> @.idx]
                       ELSE @]

LiveDocs ==
  {documents[i].v : i \in 1..Len(documents)}
    \cup {d \in UNION {{p.before, p.after} : p \in pending} : IsDoc(d)}

UsedRefs == {d.ref : d \in LiveDocs}

\* The k-th object a handler allocates gets the k-th unused identity.
RECURSIVE NthFree(_, _)
NthFree(used, k) ==
  LET n == CHOOSE n \in 1..(Cardinality(used) + 1) :
             n \notin used /\ \A m \in 1..(n - 1) : m \in used
  IN  IF k = 1 THEN n ELSE NthFree(used \cup {n}, k - 1)

FreshRef == NthFree(UsedRefs, 1)

IndexedIds(idx) ==
  UNION {UNION {Members(idx[field][val]) : val \in DOMAIN idx[field]} : field \in DOMAIN idx}

\* crypto.randomUUID() returns an identifier nothing in the collection refers to.
UsedIds ==
  {documents[i].k : i \in 1..Len(documents)} \cup {d._id : d \in LiveDocs}
    \cup {p.id : p \in pending} \cup IndexedIds(indexes)
    \cup DOMAIN docListeners
    \cup {tokens[i].key : i \in {j \in 1..Len(tokens) : tokens[j].map = "listen"}}

\* ------------------------------------------------------- notify helpers
\* One call of a handler; seen is what read(docId) returns to it.
Call(fn, event, payload, docs, docId) ==
  [fn |-> fn, event |-> event, payload |-> payload, seen |-> ValueOf(read(docs, docId))]

\* emit(event, payload): the calls to the handlers subscribed to the event.
emit(event, payload, docs, docId) ==
  IF event \in DOMAIN onListeners
    THEN LET fns == listenerSets[onListeners[event]]
         IN  [i \in 1..Len(fns) |-> Call(fns[i], event, payload, docs, docId)]
    ELSE <<>>

\* notifyDocListeners(docId, payload)
notifyDocListeners(docId, payload, docs) ==
  IF docId \in DOMAIN docListeners
    THEN LET fns == listenerSets[docListeners[docId]]
         IN  [i \in 1..Len(fns) |-> Call(fns[i], "listen", payload, docs, docId)]
    ELSE <<>>

\* ------------------------------------------------------- the write protocol
\* The payload of the create / update / remove event of a write.
Payload(w) ==
  CASE w.kind = "create" -> [doc |-> ValueOf(w.after)]
    [] w.kind = "update" ->
         [before |-> ValueOf(w.before), after |-> ValueOf(w.after), patch |-> w.patch]
    [] w.kind = "remove" -> [doc |-> ValueOf(w.before)]

\* A commit that notifies the listeners of every identifier that has some.
CommitNotifiesAll(w, docs) ==
  emit(w.kind, Payload(w), docs, w.id)
    \o (IF DOMAIN docListeners = {} THEN <<>>
        ELSE notifyDocListeners(CHOOSE id \in DOMAIN docListeners : TRUE, Payload(w), docs))

\* emit(kind, payload); notifyDocListeners(id, payload)
Commit(w, docs) ==
  emit(w.kind, Payload(w), docs, w.id) \o notifyDocListeners(w.id, Payload(w), docs)

\* A revert that restores the store and leaves the index as the write left it.
RevertStoreOnly(w, st) ==
  CASE w.kind = "create" -> [docs |-> MapDelete(st.docs, w.id), idx |-> st.idx]
    [] w.kind = "update" -> [docs |-> MapSet(st.docs, w.id, w.before), idx |-> st.idx]
    [] w.kind = "remove" -> [docs |-> MapSet(st.docs, w.id, w.before), idx |-> st.idx]

\* The two statements that undo the local apply of a write.
Revert(w, st) ==
  CASE w.kind = "create" ->
         [docs |-> MapDelete(st.docs, w.id), idx |-> indexRemove(st.idx, w.after)]
    [] w.kind = "update" ->
         [docs |-> MapSet(st.docs, w.id, w.before), idx |-> indexUpdate(st.idx, w.after, w.before)]
    [] w.kind = "remove" ->
         [docs |-> MapSet(st.docs, w.id, w.before), idx |-> indexAdd(st.idx, w.before)]

\* A catch block that never reverts.
StillAppliedNever(w, docs) == FALSE

\* The condition under which the catch block reverts.
StillApplied(w, docs) ==
  CASE w.kind = "create" -> Has(docs, w.id)
    [] w.kind = "update" -> read(docs, w.id) = w.after
    [] w.kind = "remove" -> ~Has(docs, w.id)

\* A failure that is not announced to the syncError handlers.
SyncErrorSilent(w, error, docs) == <<>>

SyncError(w, error, docs) ==
  emit("syncError", [op |-> w.kind, error |-> error, docId |-> w.id], docs, w.id)

\* A catch block that emits syncError before it reverts.
CatchEmitsFirst(w, st, err) ==
  LET r == IF StillApplied(w, st.docs) THEN Revert(w, st) ELSE st
  IN  [docs |-> r.docs, idx |-> r.idx, calls |-> SyncError(w, err, st.docs)]

\* catch (err) { if (still applied) revert; emit('syncError', err); throw }
Catch(w, st, err) ==
  LET r == IF StillApplied(w, st.docs) THEN Revert(w, st) ELSE st
  IN  [docs |-> r.docs, idx |-> r.idx, calls |-> SyncError(w, err, r.docs)]

\* if (!ok) { revert; emit('syncError', ...); throw } inside the try block: the
\* throw is caught by the catch block of the same try.
OnFalsy(w, st) ==
  LET r == Revert(w, st)
      c == Catch(w, r, "SynchronizationError")
  IN  [docs |-> c.docs, idx |-> c.idx,
       calls |-> SyncError(w, "SyncReturnedFalse", r.docs) \o c.calls]

\* The synchronizer rejects with its own cause.
OnReject(w, st, cause) == Catch(w, st, cause)

\* What a synchronizer rejects with: any value ("cause"), or an Error whose message
\* is the message of the collection's own synchronization error for that kind
\* ("causeAlike").
Causes == {"cause", "causeAlike"}

\* throw err instanceof Error && err.message === <the message of the kind> ? err
\*   : new Error(<the message of the kind>)
Thrown(err) ==
  IF err \in {"SynchronizationError", "causeAlike"} THEN err ELSE "SynchronizationError"

\* What the caller of the last handler saw: the call, its identifier argument (the
\* assigned identifier for create), how it ended ("returned", "awaiting" its
\* synchronizer, "validationError", "syncError"), for the continuation of a
\* suspended write, what had run while it was suspended, and the error a call
\* that failed on its synchronizer rejected with.
Outcome(call, id, result, touched) ==
  [call |-> call, id |-> id, result |-> result, touched |-> touched,
   error |-> IF result = "syncError" THEN "SynchronizationError" ELSE "none"]

\* The end of a handler: the state it leaves, the handler calls it made and what
\* its caller sees.
Step(docs, idx, ps, calls, out) ==
  \E d \in {docs}, i \in {idx}, q \in {ps} :
    \E order \in {RefOrder(d, q)} :
      /\ documents' = RenumberStore(d, order)
      /\ indexes' = i
      /\ pending' = {RenumberWrite(p, order) : p \in q}
      /\ delivered' = calls
      /\ outcome' = out

\* A call that throws before it changed anything.
Rejected(call, id) ==
  /\ delivered' = <<>>
  /\ outcome' = Outcome(call, id, "validationError", "nothing")
  /\ UNCHANGED <<documents, indexes, pending>>

\* A write that is refused while another write is suspended.
ApplyRefusesWhenBusy(w, docs, idx) ==
  \E v \in {w} :
    IF pending # {}
      THEN Rejected(v.kind, v.id)
      ELSE IF v.kind \in syncers
        THEN Step(docs, idx, Join(v), <<>>, Outcome(v.kind, v.id, "awaiting", "nothing"))
        ELSE Step(docs, idx, Touch(pending, {v.id}), Commit(v, docs),
                  Outcome(v.kind, v.id, "returned", "nothing"))

\* A write that fires its events at the local apply, before its synchronizer is called.
ApplyFiresEarly(w, docs, idx) ==
  \E v \in {w} :
    Step(docs, idx, IF v.kind \in syncers THEN Join(v) ELSE Touch(pending, {v.id}),
         Commit(v, docs),
         Outcome(v.kind, v.id, IF v.kind \in syncers THEN "awaiting" ELSE "returned", "nothing"))

\* The local apply of a write w that leaves docs and idx, then the await or,
\* without a synchronizer for its kind, the commit.
Apply(w, docs, idx) ==
  \E v \in {w} :
    IF v.kind \in syncers
      THEN Step(docs, idx, Join(v), <<>>,
                Outcome(v.kind, v.id, "awaiting", "nothing"))
      ELSE Step(docs, idx, Touch(pending, {v.id}), Commit(v, docs),
                Outcome(v.kind, v.id, "returned", "nothing"))

\* A create that stamps createdAt with the epoch instead of now.
createUnstamped(input, _id, now) ==
  /\ _id \notin UsedIds
  /\ LET doc == Doc(_id, FreshRef, input.f, input.g, 0, now)
     IN  Apply(Write("create", _id, NoDoc, doc, NoPatch),
               MapSet(documents, _id, doc), indexAdd(indexes, doc))
  /\ clock' = now
  /\ UNCHANGED <<config, registry>>

\* _id is what crypto.randomUUID() returns, now what Date.now() returns.
create(input, _id, now) ==
  /\ _id \notin UsedIds
  /\ LET doc == Doc(_id, FreshRef, input.f, input.g, now, now)
     IN  Apply(Write("create", _id, NoDoc, doc, NoPatch),
               MapSet(documents, _id, doc), indexAdd(indexes, doc))
  /\ clock' = now
  /\ UNCHANGED <<config, registry>>

updateValid(id) == id # NoId /\ Has(documents, id)

update(id, patch, now) ==
  /\ IF ~updateValid(id)
       THEN Rejected("update", id) /\ UNCHANGED clock
       ELSE /\ \E before \in {read(documents, id)} :
                 \E after \in {Spread(before, patch, FreshRef, now)} :
                   Apply(Write("update", id, before, after, patch),
                         MapSet(documents, id, after), indexUpdate(indexes, before, after))
            /\ clock' = now
  /\ UNCHANGED <<config, registry>>

\* A remove that only checks that the identifier is not empty.
removeValidEmptyOnly(id) == id # NoId

removeValid(id) == id # NoId /\ Has(documents, id)

remove(id) ==
  /\ IF ~removeValid(id)
       THEN Rejected("remove", id)
       ELSE LET doc == read(documents, id)
            IN  Apply(Write("remove", id, doc, NoDoc, NoPatch),
                      MapDelete(documents, id), indexRemove(indexes, doc))
  /\ UNCHANGED <<config, registry, clock>>

\* The continuation of a suspended write once its synchronizer has settled: it
\* resolved truthy or falsy, or rejected with cause.
SettleWith(p, res, cause) ==
  /\ LET st == [docs |-> documents, idx |-> indexes]
         r == CASE res = "truthy" -> [docs |-> documents, idx |-> indexes,
                                      calls |-> Commit(p, documents)]
                [] res = "falsy" -> OnFalsy(p, st)
                [] res = "rejects" -> OnReject(p, st, cause)
         out == Outcome(p.kind, p.id, IF res = "truthy" THEN "returned" ELSE "syncError",
                        p.touched)
     IN  Step(r.docs, r.idx, Leave(p), r.calls,
              IF res = "rejects" THEN [out EXCEPT !.error = Thrown(cause)] ELSE out)
  /\ UNCHANGED <<config, registry, clock>>

Settle(p, res) == SettleWith(p, res, "cause")

\* The elements populate stores before its loop ends or throws.
StoredPrefix(docs) ==
  IF \E i \in 1..Len(docs) : docs[i]._id = NoId
    THEN (CHOOSE i \in 1..Len(docs) :
            docs[i]._id = NoId /\ \A j \in 1..(i - 1) : docs[j]._id # NoId) - 1
    ELSE Len(docs)

\* A loop that keeps the document already stored under an identifier.
RECURSIVE SetAllKeep(_, _, _, _)
SetAllKeep(docs, elems, i, n) ==
  IF i > n THEN docs
  ELSE SetAllKeep(IF Has(docs, elems[i]._id) THEN docs ELSE MapSet(docs, elems[i]._id, elems[i]),
                  elems, i + 1, n)

RECURSIVE SetAll(_, _, _, _)
SetAll(docs, elems, i, n) ==
  IF i > n THEN docs ELSE SetAll(MapSet(docs, elems[i]._id, elems[i]), elems, i + 1, n)

\* A populate that also notifies the listeners of the last document it stored.
populateNotifies(input) ==
  /\ \E elems \in {[i \in 1..Len(input) |->
                       Doc(input[i]._id, NthFree(UsedRefs, i), input[i].f, input[i].g,
                           input[i].createdAt, input[i].updatedAt)]} :
       \E n \in {StoredPrefix(elems)} :
         \E docs \in {SetAll(documents, elems, 1, n)} :
           LET ps == Touch(pending, {elems[i]._id : i \in 1..n})
           IN  IF n < Len(elems)
                 THEN Step(docs, indexes, ps, <<>>,
                           Outcome("populate", NoId, "validationError", "nothing"))
                 ELSE Step(docs, indexRebuild(indexes, docs), ps,
                           emit("populate", [count |-> Len(elems)], docs, NoId)
                             \o (IF n = 0 THEN <<>>
                                 ELSE notifyDocListeners(elems[n]._id, [doc |-> ValueOf(elems[n])], docs)),
                           Outcome("populate", NoId, "returned", "nothing"))
  /\ UNCHANGED <<config, registry, clock>>

\* input: the array, each element a caller-made object with the fields of a Doc,
\* possibly without _id.
populate(input) ==
  /\ \E elems \in {[i \in 1..Len(input) |->
                       Doc(input[i]._id, NthFree(UsedRefs, i), input[i].f, input[i].g,
                           input[i].createdAt, input[i].updatedAt)]} :
       \E n \in {StoredPrefix(elems)} :
         \E docs \in {SetAll(documents, elems, 1, n)} :
           LET ps == Touch(pending, {elems[i]._id : i \in 1..n})
           IN  IF n < Len(elems)
                 THEN Step(docs, indexes, ps, <<>>,
                           Outcome("populate", NoId, "validationError", "nothing"))
                 ELSE Step(docs, indexRebuild(indexes, docs), ps,
                           emit("populate", [count |-> Len(elems)], docs, NoId),
                           Outcome("populate", NoId, "returned", "nothing"))
  /\ UNCHANGED <<config, registry, clock>>

clear ==
  /\ Step(<<>>, indexClear(indexes), Touch(pending, Ids), <<>>,
          Outcome("clear", NoId, "returned", "nothing"))
  /\ UNCHANGED <<config, registry, clock>>

\* ------------------------------------------------------- utility functions
\* A utility function applied on its own: `args` as passed, `after` the argument
\* objects once it has returned, `result` what it returned.
NoCall == [fn |-> "none"]
Applied(fn, args, after, result) ==
  /\ applied' = [fn |-> fn, args |-> args, after |-> after, result |-> result]
  /\ UNCHANGED <<config, store, registry, delivered, outcome, bulk>>

\* sortDocuments(docs, orderBy) sorts a copy: [...docs].sort(...)
sortCall(docs, orderBy) ==
  \E result \in sortResults(docs, orderBy) :
    Applied("sortDocuments", <<docs, orderBy>>, <<docs, orderBy>>, result)

\* ------------------------------------------------------- bulk operations
\* updateMany / removeMany: `targets` are the identifiers the initial query(where)
\* returned, `rest` those the loop has not reached, `attempted` those update / remove
\* was called with, `current` the one being awaited, and `state` where the call is:
\* "none" (never called), "awaiting" the update / remove of `current`, "ready" to
\* go on with the loop, "resolved" or "rejected" to its caller.
NoBulk ==
  [call |-> "none", kind |-> "none", patch |-> NoPatch, targets |-> <<>>, rest |-> <<>>,
   attempted |-> {}, current |-> NoId, state |-> "none"]
BulkIdle == bulk.state \in {"none", "resolved", "rejected"}

\* A loop that calls update / remove for the next target without awaiting the
\* previous one: `results.push(update(doc._id, patch))`.
BulkCallNoAwait(b) ==
  \E id \in {Head(b.rest)} :
    /\ IF b.kind = "update" THEN update(id, b.patch, clock) ELSE remove(id)
    /\ bulk' = [b EXCEPT !.rest = Tail(@), !.attempted = @ \cup {id}, !.current = id,
                         !.state = CASE outcome'.result = "validationError" -> "rejected"
                                     [] Tail(b.rest) # <<>> -> "ready"
                                     [] outcome'.result = "awaiting" -> "awaiting"
                                     [] OTHER -> "resolved"]

\* `results.push(await update(doc._id, patch))` for the next target of b: the call of
\* update / remove, then the await of its promise; a call that throws rejects the
\* bulk call, and after the last target the loop ends and the bulk call resolves.
BulkCall(b) ==
  \E id \in {Head(b.rest)} :
    /\ IF b.kind = "update" THEN update(id, b.patch, clock) ELSE remove(id)
    /\ bulk' = [b EXCEPT !.rest = Tail(@), !.attempted = @ \cup {id}, !.current = id,
                         !.state = CASE outcome'.result = "awaiting" -> "awaiting"
                                     [] outcome'.result = "validationError" -> "rejected"
                                     [] OTHER -> IF Tail(b.rest) = <<>> THEN "resolved"
                                                 ELSE "ready"]

\* The call of a bulk operation: `const matches = query(where)`, then the loop up
\* to its first await.
BulkStart(call, kind, where, patch) ==
  /\ BulkIdle
  /\ \E matches \in {query(indexedFields, indexes, documents, where)} :
       \E b \in {[call |-> call, kind |-> kind, patch |-> patch,
                   targets |-> [i \in 1..Len(matches) |-> matches[i]._id],
                   rest |-> [i \in 1..Len(matches) |-> matches[i]._id],
                   attempted |-> {}, current |-> NoId, state |-> "ready"]} :
         IF Len(matches) = 0
           THEN /\ bulk' = [b EXCEPT !.state = "resolved"]
                /\ delivered' = <<>>
                /\ outcome' = Outcome(call, NoId, "returned", "nothing")
                /\ UNCHANGED <<config, store, registry>>
           ELSE BulkCall(b)

updateMany(where, patch) == BulkStart("updateMany", "update", where, patch)

removeMany(where) == BulkStart("removeMany", "remove", where, NoPatch)

\* The loop of the bulk call goes on after the update / remove it awaited returned.
BulkNext == bulk.state = "ready" /\ BulkCall(bulk)

\* The suspended write p is the one the bulk call awaits.
BulkAwaits(p) == bulk.state = "awaiting" /\ p.kind = bulk.kind /\ p.id = bulk.current

\* The continuation of a suspended write, and that of the bulk call awaiting it: a
\* resolved update / remove lets the loop go on, a rejected one rejects the bulk call.
BulkSettle(p, res) ==
  /\ Settle(p, res)
  /\ bulk' = IF ~BulkAwaits(p) THEN bulk
             ELSE [bulk EXCEPT !.state = IF res # "truthy" THEN "rejected"
                                         ELSE IF bulk.rest = <<>> THEN "resolved"
                                         ELSE "ready"]

\* ------------------------------------------------------- subscriptions
\* A cancellation closure: the map and key it was made for, the Set object it
\* captured and its handler; called records that it has been invoked.
Token(map, key, set, fn) ==
  [map |-> map, key |-> key, set |-> set, fn |-> fn, called |-> FALSE]

FreshSet ==
  CHOOSE n \in 1..(Cardinality(DOMAIN listenerSets) + 1) : n \notin DOMAIN listenerSets

\* map.set(key, value) and map.delete(key) on a Map held as a function.
Put(map, key, value) == [x \in DOMAIN map \cup {key} |-> IF x = key THEN value ELSE map[x]]
Drop(map, key) == [x \in DOMAIN map \ {key} |-> map[x]]

\* The body shared by on and listen: get or create the Set of the key, add fn.
Subscribe(map, key, fn) ==
  LET set == IF key \in DOMAIN map THEN map[key] ELSE FreshSet
  IN  [map |-> Put(map, key, set),
       sets |-> Put(listenerSets, set,
                    SetAdd(IF key \in DOMAIN map THEN listenerSets[set] ELSE <<>>, fn)),
       token |-> set]

on(event, fn) ==
  /\ LET r == Subscribe(onListeners, event, fn)
     IN  /\ onListeners' = r.map
         /\ listenerSets' = r.sets
         /\ tokens' = Append(tokens, Token("on", event, r.token, fn))
  /\ delivered' = <<>>
  /\ outcome' = Outcome("on", NoId, "returned", "nothing")
  /\ UNCHANGED <<config, store, docListeners>>

listen(id, fn) ==
  /\ LET r == Subscribe(docListeners, id, fn)
     IN  /\ docListeners' = r.map
         /\ listenerSets' = r.sets
         /\ tokens' = Append(tokens, Token("listen", id, r.token, fn))
  /\ delivered' = <<>>
  /\ outcome' = Outcome("listen", id, "returned", "nothing")
  /\ UNCHANGED <<config, store, onListeners>>

\* The closure on / listen returned: set.delete(fn); if (set.size === 0) map.delete(key)
cancel(i) ==
  /\ LET t == tokens[i]
         set == SetDelete(listenerSets[t.set], t.fn)
     IN  /\ listenerSets' = [listenerSets EXCEPT ![t.set] = set]
         /\ onListeners' = IF Len(set) = 0 /\ t.map = "on"
                             THEN Drop(onListeners, t.key) ELSE onListeners
         /\ docListeners' = IF Len(set) = 0 /\ t.map = "listen"
                              THEN Drop(docListeners, t.key) ELSE docListeners
  /\ delivered' = <<>>
  /\ tokens' = [tokens EXCEPT ![i].called = TRUE]
  /\ outcome' = Outcome("cancel", NoId, "returned", "nothing")
  /\ UNCHANGED <<config, store>>

\* ------------------------------------------------------- specification
IndexConfigs == {{"f"}, {"f", "g"}}
SyncerConfigs == {Kinds, {"update"}}

\* The inputs of create: T.
Inputs == [f : Values, g : {Num(0)}]

\* The inputs of update: Partial<T>, as a function from the fields it names.
Patches == UNION {[fs -> Values] : fs \in SUBSET {"f"}}

\* The arrays populate is called with: the i-th element carries f = i - 1 (modulo
\* the number of values) and may lack _id.
PopulateElem(id, i, t) ==
  [_id |-> id, f |-> Num((i - 1) % (MaxVal + 1)), g |-> Num(0), createdAt |-> t, updatedAt |-> t]
PopulateInputs(ids, t) ==
  UNION {{[i \in 1..n |-> PopulateElem(a[i], i, t)] : a \in [1..n -> ids]} : n \in 0..MaxPopulate}

\* The next identifier randomUUID returns: one not in use.
FreshIds == {i \in Ids \ UsedIds : \A j \in Ids \ UsedIds : i <= j}

\* A new await fits the bound on suspended writes.
Room(kind) == kind \notin syncers \/ Cardinality(pending) < MaxPending

Results == {"truthy", "falsy", "rejects"}

Init ==
  /\ indexedFields \in IndexConfigs
  /\ syncers \in SyncerConfigs
  /\ documents = <<>>
  /\ indexes = [field \in indexedFields |-> NoBuckets]
  /\ pending = {}
  /\ clock = 0
  /\ listenerSets = <<>>
  /\ onListeners = <<>>
  /\ docListeners = <<>>
  /\ tokens = <<>>
  /\ delivered = <<>>
  /\ outcome = Outcome("none", NoId, "returned", "nothing")
  /\ bulk = NoBulk
  /\ applied = NoCall

Next ==
  \/ \E input \in Inputs, _id \in FreshIds :
       Room("create") /\ create(input, _id, clock) /\ UNCHANGED <<bulk, applied>>
  \/ \E id \in {NoId} \cup Ids, patch \in Patches :
       Room("update") /\ update(id, patch, clock) /\ UNCHANGED <<bulk, applied>>
  \/ \E id \in {NoId} \cup Ids : Room("remove") /\ remove(id) /\ UNCHANGED <<bulk, applied>>
  \/ \E p \in pending, res \in Results : Settle(p, res) /\ UNCHANGED <<bulk, applied>>
  \/ \E input \in PopulateInputs({NoId} \cup Ids, clock) : populate(input) /\ UNCHANGED <<bulk, applied>>
  \/ clear /\ UNCHANGED <<bulk, applied>>

Spec == Init /\ [][Next]_vars

\* The collection with subscribers: one document identifier, a clock that moves
\* between updates, and handlers that record the calls they get.
EventIds == 1..MaxEventIds
FreshEventIds == {i \in EventIds \ UsedIds : \A j \in EventIds \ UsedIds : i <= j}

NextEvents ==
  \/ \E input \in Inputs, _id \in FreshEventIds :
       Room("create") /\ create(input, _id, clock) /\ UNCHANGED <<bulk, applied>>
  \/ \E id \in {NoId} \cup Ids, patch \in Patches, now \in clock..MaxTime :
       Room("update") /\ update(id, patch, now) /\ UNCHANGED <<bulk, applied>>
  \/ \E id \in {NoId} \cup Ids : Room("remove") /\ remove(id) /\ UNCHANGED <<bulk, applied>>
  \/ \E p \in pending, res \in Results : Settle(p, res) /\ UNCHANGED <<bulk, applied>>
  \/ \E input \in PopulateInputs({NoId} \cup EventIds, clock) : populate(input) /\ UNCHANGED <<bulk, applied>>
  \/ clear /\ UNCHANGED <<bulk, applied>>
  \/ \E event \in EventTypes, fn \in Fns : Len(tokens) < MaxTokens /\ on(event, fn) /\ UNCHANGED <<bulk, applied>>
  \/ \E id \in EventIds, fn \in Fns : Len(tokens) < MaxTokens /\ listen(id, fn) /\ UNCHANGED <<bulk, applied>>
  \/ \E i \in 1..Len(tokens) : cancel(i) /\ UNCHANGED <<bulk, applied>>

SpecEvents == Init /\ [][NextEvents]_vars

\* The collection when every element passed to populate carries an identifier.
NextIds ==
  \/ \E input \in Inputs, _id \in FreshIds :
       Room("create") /\ create(input, _id, clock) /\ UNCHANGED <<bulk, applied>>
  \/ \E id \in {NoId} \cup Ids, patch \in Patches :
       Room("update") /\ update(id, patch, clock) /\ UNCHANGED <<bulk, applied>>
  \/ \E id \in {NoId} \cup Ids : Room("remove") /\ remove(id) /\ UNCHANGED <<bulk, applied>>
  \/ \E p \in pending, res \in Results : Settle(p, res) /\ UNCHANGED <<bulk, applied>>
  \/ \E input \in PopulateInputs(Ids, clock) : populate(input) /\ UNCHANGED <<bulk, applied>>
  \/ clear /\ UNCHANGED <<bulk, applied>>

SpecIds == Init /\ [][NextIds]_vars

\* ------------------------------------------------------- properties
\* The identifiers in the bucket of val of an indexed field.
BucketIds(idx, field, val) ==
  IF val \in DOMAIN idx[field] THEN Members(idx[field][val]) ELSE {}

BucketKeys(a, b, field) == DOMAIN a[field] \cup DOMAIN b[field]

\* Two indexes have the same buckets with the same members.
SameBuckets(a, b) ==
  \A field \in DOMAIN a : \A val \in BucketKeys(a, b, field) :
    BucketIds(a, field, val) = BucketIds(b, field, val)

\* This step is the continuation of the suspended write p after its synchronizer
\* resolved falsy or rejected.
FailedSettle(p) == Settle(p, "falsy") \/ Settle(p, "rejects")

\* The where-clauses the properties range over: literals, eq, in, notEq and gt on
\* one field or on both.
Clauses ==
  {Lit(v) : v \in Values}
    \cup {Obj(<<Op("eq", v)>>) : v \in Values}
    \cup {Obj(<<Op("in", Arr(<<Num(1), Num(0)>>))>>),
          Obj(<<Op("notEq", Num(0))>>), Obj(<<Op("gt", Num(0))>>)}
Entry(key, clause) == [key |-> key, clause |-> clause]
Wheres ==
  {<<>>}
    \cup {<<Entry(key, c)>> : key \in Fields, c \in Clauses}
    \cup {<<Entry("f", c), Entry("g", d)>> : c \in Clauses, d \in Clauses}

\* C1: in every reachable state, every document in the store has its identifier
\* in the bucket of its current value of each indexed field, and in no other
\* bucket of that field.
C1_IndexMatchesStore ==
  \A i \in 1..Len(documents) : \A field \in indexedFields :
    \A val \in DOMAIN indexes[field] \cup {Field(documents[i].v, field)} :
      (documents[i].k \in BucketIds(indexes, field, val))
        <=> (val = Field(documents[i].v, field))

\* C2: when an update whose synchronizer resolved falsy or rejected has rejected,
\* and nothing else ran while it was suspended, read(id) is the pre-update
\* document in every field and every index bucket is as it was before the call.
C2_FailedUpdateRestores ==
  [][\A p \in pending :
       (p.kind = "update" /\ p.touched = "nothing" /\ FailedSettle(p))
         => /\ ValueOf(read(documents', p.id)) = ValueOf(p.before)
            /\ SameBuckets(indexes', p.snap.idx)]_vars

\* C3: when a remove whose synchronizer resolved falsy or rejected has rejected,
\* and nothing else ran while it was suspended, read(id) is the original document,
\* exists(id) is true, count() is as before the call and the identifier is in the
\* bucket of the document's value of each indexed field.
C3_FailedRemoveRestores ==
  [][\A p \in pending :
       (p.kind = "remove" /\ p.touched = "nothing" /\ FailedSettle(p))
         => /\ ValueOf(read(documents', p.id)) = ValueOf(read(p.snap.docs, p.id))
            /\ exists(documents', p.id)
            /\ count(documents') = count(p.snap.docs)
            /\ \A field \in indexedFields :
                 p.id \in BucketIds(indexes', field, Field(p.before, field))]_vars

C3_Witness ==
  /\ outcome = Outcome("remove", outcome.id, "syncError", "nothing")
  /\ count(documents) = MaxIds
  /\ indexedFields = Fields
  /\ \A field \in indexedFields :
       outcome.id \in BucketIds(indexes, field, Field(read(documents, outcome.id), field))

\* C4: when a create whose synchronizer resolved falsy or rejected has rejected,
\* and nothing else ran while it was suspended, exists(id) is false for the
\* assigned identifier, count() is as before the call and no bucket holds the
\* identifier.
C4_FailedCreateLeavesNothing ==
  [][\A p \in pending :
       (p.kind = "create" /\ p.touched = "nothing" /\ FailedSettle(p))
         => /\ ~exists(documents', p.id)
            /\ count(documents') = count(p.snap.docs)
            /\ p.id \notin IndexedIds(indexes')]_vars

C4_Witness ==
  /\ outcome = Outcome("create", outcome.id, "syncError", "nothing")
  /\ count(documents) > 0
  /\ ~exists(documents, outcome.id)

\* The handlers subscribed to an event, and the calls the last handler made to fn
\* for an event.
Subscribers(event) ==
  IF event \in DOMAIN onListeners THEN Members(listenerSets[onListeners[event]]) ELSE {}
CallsOf(calls, event, fn) ==
  {i \in 1..Len(calls) : calls[i].event = event /\ calls[i].fn = fn}

\* C5: a create, update or remove whose synchronizer resolved falsy or rejected
\* fires exactly one syncError event, carrying the operation kind and the document
\* identifier, and the call rejects; a write that commits or has no synchronizer
\* fires none.
C5_OneSyncErrorPerFailure ==
  /\ (outcome.call \in Kinds /\ outcome.result = "syncError")
       => \A fn \in Subscribers("syncError") :
            /\ Cardinality(CallsOf(delivered, "syncError", fn)) = 1
            /\ \A i \in CallsOf(delivered, "syncError", fn) :
                 /\ delivered[i].payload.op = outcome.call
                 /\ delivered[i].payload.docId = outcome.id
  /\ (outcome.call \in Kinds /\ outcome.result \in {"returned", "awaiting"})
       => \A fn \in Subscribers("syncError") : CallsOf(delivered, "syncError", fn) = {}

\* C6: when a write fails and no other operation ran on its document while it was
\* suspended, every syncError handler called for it reads the reverted state (no
\* document for a create, the pre-update document for an update, the original
\* document for a remove), and so does the caller once the call has rejected.
C6_RevertBeforeSyncError ==
  [][\A p \in pending :
       (p.touched # "document" /\ FailedSettle(p))
         => /\ \A i \in 1..Len(delivered') :
                 delivered'[i].event = "syncError" => delivered'[i].seen = ValueOf(p.before)
            /\ ValueOf(read(documents', p.id)) = ValueOf(p.before)]_vars

C6_Witness ==
  /\ outcome = Outcome("update", outcome.id, "syncError", "nothing")
  /\ \E i \in 1..Len(delivered) :
       /\ delivered[i].event = "syncError"
       /\ delivered[i].seen = ValueOf(read(documents, outcome.id))
       /\ delivered[i].seen.updatedAt < clock

\* The step is a call of update or remove, not the continuation of one.
IsCallOf(out, kinds) ==
  /\ out.call \in kinds
  /\ \/ out.result \in {"validationError", "awaiting"}
     \/ out.result = "returned" /\ out.call \notin syncers

\* C7: update or remove called with an empty identifier or one that is not in the
\* store rejects with a validation error, leaves the documents, the index buckets
\* and the listener registrations unchanged, invokes no synchronizer and fires no
\* event.
C7_ValidationLeavesState ==
  [][(/\ IsCallOf(outcome', {"update", "remove"})
      /\ (outcome'.id = NoId \/ ~Has(documents, outcome'.id)))
       => /\ outcome'.result = "validationError"
          /\ documents' = documents
          /\ indexes' = indexes
          /\ registry' = registry
          /\ pending' = pending
          /\ delivered' = <<>>]_vars

C7_Witness ==
  /\ outcome.call \in {"update", "remove"}
  /\ outcome.result = "validationError"
  /\ outcome.id # NoId
  /\ count(documents) > 0
  /\ pending # {}
  /\ Subscribers(outcome.call) # {}

\* C8: a populate call with an element that lacks an identifier fails and stores
\* nothing: the documents, the index buckets and count() are as before the call
\* and no populate event fires.
C8_FailedPopulateStoresNothing ==
  [][(outcome'.call = "populate" /\ outcome'.result = "validationError")
       => /\ documents' = documents
          /\ indexes' = indexes
          /\ count(documents') = count(documents)
          /\ delivered' = <<>>]_vars

\* C9: for every where-clause, query(where) on the collection returns the same set
\* of documents as query(where) on a collection with the same documents and no
\* indexed fields.
C9_IndexedQueryEqualsScan ==
  \A where \in Wheres :
    Members(query(indexedFields, indexes, documents, where))
      = Members(query({}, <<>>, documents, where))

\* C10: for every where-clause, findOne(where) is the first element of
\* query(where), and is null exactly when query(where) is empty.
C10_FindOneIsFirstOfQuery ==
  \A where \in Wheres :
    LET hits == query(indexedFields, indexes, documents, where)
    IN  findOne(documents, where) = IF Len(hits) = 0 THEN NoDoc ELSE hits[1]

\* The collection with up to MaxSubs subscriptions, one document identifier and a
\* clock that stands still.
NextSubs ==
  \/ \E input \in Inputs, _id \in FreshEventIds :
       Room("create") /\ create(input, _id, clock) /\ UNCHANGED <<bulk, applied>>
  \/ \E id \in EventIds, patch \in Patches : Room("update") /\ update(id, patch, clock) /\ UNCHANGED <<bulk, applied>>
  \/ \E id \in EventIds : Room("remove") /\ remove(id) /\ UNCHANGED <<bulk, applied>>
  \/ \E p \in pending, res \in Results : Settle(p, res) /\ UNCHANGED <<bulk, applied>>
  \/ \E input \in PopulateInputs(EventIds, clock) : populate(input) /\ UNCHANGED <<bulk, applied>>
  \/ clear /\ UNCHANGED <<bulk, applied>>
  \/ \E event \in EventTypes, fn \in Fns : Len(tokens) < MaxSubs /\ on(event, fn) /\ UNCHANGED <<bulk, applied>>
  \/ \E id \in EventIds, fn \in Fns : Len(tokens) < MaxSubs /\ listen(id, fn) /\ UNCHANGED <<bulk, applied>>
  \/ \E i \in 1..Len(tokens) : cancel(i) /\ UNCHANGED <<bulk, applied>>

SpecSubs == Init /\ [][NextSubs]_vars

\* The subscription a token was returned for is in force: emit or
\* notifyDocListeners would call its handler.
Registered(t, sets, ons, docs) ==
  IF t.map = "on"
    THEN t.key \in DOMAIN ons /\ t.fn \in Members(sets[ons[t.key]])
    ELSE t.key \in DOMAIN docs /\ t.fn \in Members(sets[docs[t.key]])

\* C11: invoking a cancellation token that has been invoked before returns and
\* changes nothing: the registrations of every event kind and document identifier
\* stay as they are.
C11_SecondCancelChangesNothing ==
  [][\A i \in 1..Len(tokens) :
       (tokens[i].called /\ cancel(i))
         => /\ outcome'.result = "returned"
            /\ listenerSets' = listenerSets
            /\ onListeners' = onListeners
            /\ docListeners' = docListeners]_vars

\* C12: invoking a cancellation token for the first time removes only the
\* subscription it was returned for: every other subscription in force, one of the
\* same handler to the same event kind or document identifier included, stays in
\* force.
C12_CancelRemovesOnlyItsOwn ==
  [][\A i \in 1..Len(tokens) :
       (~tokens[i].called /\ cancel(i))
         => \A j \in (1..Len(tokens)) \ {i} :
              (~tokens[j].called
                 /\ Registered(tokens[j], listenerSets, onListeners, docListeners))
                => Registered(tokens[j], listenerSets', onListeners', docListeners')]_vars

\* C13: clear() destroys every subscription: it leaves no handler registered, and
\* the operation that runs right after it calls no handler.
C13_ClearDestroysSubscriptions ==
  [][(outcome.call = "clear" => delivered' = <<>>)
       /\ (outcome'.call = "clear" => (onListeners' = <<>> /\ docListeners' = <<>>))]_vars

\* The collection with up to MaxOverlap writes suspended at once on one document
\* identifier.
RoomOverlap(kind) == kind \notin syncers \/ Cardinality(pending) < MaxOverlap

NextOverlap ==
  \/ \E input \in Inputs, _id \in FreshEventIds :
       RoomOverlap("create") /\ create(input, _id, clock) /\ UNCHANGED <<bulk, applied>>
  \/ \E id \in EventIds, patch \in Patches, now \in clock..MaxTime :
       RoomOverlap("update") /\ update(id, patch, now) /\ UNCHANGED <<bulk, applied>>
  \/ \E id \in EventIds : RoomOverlap("remove") /\ remove(id) /\ UNCHANGED <<bulk, applied>>
  \/ \E p \in pending, res \in Results : Settle(p, res) /\ UNCHANGED <<bulk, applied>>
  \/ \E input \in PopulateInputs(EventIds, clock) : populate(input) /\ UNCHANGED <<bulk, applied>>
  \/ clear /\ UNCHANGED <<bulk, applied>>

SpecOverlap == Init /\ [][NextOverlap]_vars

\* C14: when two writes to one document were suspended together and nothing else
\* ran on the document, the document is, once the second of them has settled, what
\* that write produced: what it wrote if it committed, what it had found if it
\* reverted.
C14_LastSettledWins ==
  [][\A p \in pending : \A res \in Results :
       (p.peer = "settled" /\ Settle(p, res))
         => ValueOf(read(documents', p.id))
              = ValueOf(IF res = "truthy" THEN p.after ELSE p.before)]_vars

\* The call is over for its caller, or suspended on its own synchronizer only.
Started(out) == out.result \in {"returned", "awaiting"}

BulkWheres == {<<>>, <<Entry("f", Lit(Num(0)))>>}

NextBulk ==
  \/ \E input \in Inputs, _id \in FreshIds :
       Room("create") /\ create(input, _id, clock) /\ UNCHANGED <<bulk, applied>>
  \/ \E id \in Ids : Room("remove") /\ remove(id) /\ UNCHANGED <<bulk, applied>>
  \/ \E p \in pending, res \in Results : BulkSettle(p, res) /\ UNCHANGED applied
  \/ \E where \in BulkWheres, patch \in Patches :
       Room("update") /\ updateMany(where, patch) /\ UNCHANGED applied
  \/ \E where \in BulkWheres : Room("remove") /\ removeMany(where) /\ UNCHANGED applied
  \/ Room(bulk.kind) /\ BulkNext /\ UNCHANGED applied

SpecBulk == Init /\ [][NextBulk]_vars

\* C16: once updateMany / removeMany has resolved or rejected, update / remove has
\* been called for every target the initial query(where) selected.
C16_EveryTargetAttempted ==
  bulk.state \in {"resolved", "rejected"}
    => \A i \in 1..Len(bulk.targets) : bulk.targets[i] \in bulk.attempted

\* The collection with subscribers where a synchronizer that was called settles:
\* the continuation of a suspended write is not postponed forever.
SettleOf(kind, id) ==
  \E p \in pending, res \in Results :
    p.kind = kind /\ p.id = id /\ Settle(p, res) /\ UNCHANGED <<bulk, applied>>
SpecSettles == SpecEvents /\ \A kind \in Kinds, id \in EventIds : WF_vars(SettleOf(kind, id))

\* A write of that kind to that document is suspended, has just settled.
Suspended(kind, id) == \E p \in pending : p.kind = kind /\ p.id = id
Settled(kind, id) ==
  /\ outcome.call = kind /\ outcome.id = id
  /\ kind \in syncers
  /\ outcome.result \in {"returned", "syncError"}

\* The last call or continuation committed, or reverted.
Commits == outcome.call \in Kinds /\ outcome.result = "returned"
Reverts == outcome.call \in Kinds /\ outcome.result = "syncError"

CommitEvents == Kinds \cup {"listen"}

NextCauses ==
  \/ \E input \in Inputs, _id \in FreshEventIds :
       Room("create") /\ create(input, _id, clock) /\ UNCHANGED <<bulk, applied>>
  \/ \E id \in EventIds, patch \in Patches :
       Room("update") /\ update(id, patch, clock) /\ UNCHANGED <<bulk, applied>>
  \/ \E id \in EventIds : Room("remove") /\ remove(id) /\ UNCHANGED <<bulk, applied>>
  \/ \E p \in pending, res \in Results, cause \in Causes :
       SettleWith(p, res, cause) /\ UNCHANGED <<bulk, applied>>
  \/ \E event \in EventTypes, fn \in Fns :
       Len(tokens) < MaxTokens /\ on(event, fn) /\ UNCHANGED <<bulk, applied>>
  \/ \E i \in 1..Len(tokens) : cancel(i) /\ UNCHANGED <<bulk, applied>>

SpecCauses == Init /\ [][NextCauses]_vars

\* The errors the collection creates itself when a synchronizer fails.
Synthesized == {"SyncReturnedFalse", "SynchronizationError"}

\* C19: a write that fails on its synchronizer rejects to its caller with the
\* collection's own synchronization error of its kind, whatever the synchronizer
\* rejected with; every syncError handler called for it is given what the
\* synchronizer rejected with when it rejected, and an error the collection created
\* when it resolved falsy.
C19_CallerErrorIgnoresCause ==
  [][\A p \in pending, cause \in Causes :
       /\ SettleWith(p, "rejects", cause)
            => /\ outcome'.error = "SynchronizationError"
               /\ \A i \in 1..Len(delivered') :
                    delivered'[i].event = "syncError" => delivered'[i].payload.error = cause
       /\ SettleWith(p, "falsy", cause)
            => /\ outcome'.error = "SynchronizationError"
               /\ \A j \in 1..Len(delivered') :
                    delivered'[j].event = "syncError"
                      => delivered'[j].payload.error \in Synthesized]_vars

\* The options and where-clauses query is called with.
OrderBys ==
  {UnsetOrderBy, Given(<<>>), Given(<<[key |-> "f", dir |-> "ASC"]>>),
   Given(<<[key |-> "f", dir |-> "DESC"]>>)}
OptionSets ==
  {Options(orderBy, skip, limit) :
     orderBy \in OrderBys,
     skip \in {Unset} \cup {Given(n) : n \in 0..MaxSkip},
     limit \in {Unset} \cup {Given(n) : n \in 0..MaxLimit}}
OptionWheres ==
  {<<>>, <<Entry("f", Lit(Num(0)))>>, <<Entry("f", Obj(<<Op("in", Arr(<<Num(1), Num(0)>>))>>))>>}

\* The pipeline: the documents of the store that match where, in store order,
\* sorted by orderBy, without the first skip, cut to limit.
Pipeline(docs, where, options) ==
  LET filtered == SelectSeq(DocValues(docs), LAMBDA doc : Matches(where, doc))
      sorted == IF options.orderBy.set THEN sortDocuments(filtered, options.orderBy.v)
                ELSE filtered
      skipped == IF options.skip.set
                   THEN SubSeq(sorted, options.skip.v + 1, Len(sorted)) ELSE sorted
  IN  IF options.limit.set /\ options.limit.v < Len(skipped)
        THEN SubSeq(skipped, 1, options.limit.v) ELSE skipped

\* C20: for every where-clause and every combination of orderBy, skip and limit,
\* query(where, options) is the pipeline filter, sort, skip, limit applied to the
\* store.
C20_QueryIsPipeline ==
  \A where \in OptionWheres, options \in OptionSets :
    queryWith(indexedFields, indexes, documents, where, options)
      = Pipeline(documents, where, options)

\* sortDocuments applied on its own to arrays of up to MaxSort documents whose
\* field f holds a number, a string or nothing, under every orderBy of SortOrders.
SortValues == {Num(0), Num(1), Str(<<1>>), Str(<<2>>), Undefined}
SortDocs ==
  UNION {{[i \in 1..n |-> Doc(i, i, fs[i], gs[i], 0, 0)] :
            fs \in [1..n -> SortValues], gs \in [1..n -> Values]} : n \in 0..MaxSort}
By(key, dir) == [key |-> key, dir |-> dir]
SortOrders ==
  {<<>>, <<By("f", "ASC")>>, <<By("f", "DESC")>>, <<By("f", "ASC"), By("g", "DESC")>>,
   <<By("g", "DESC"), By("f", "ASC")>>}

NextSort ==
  /\ applied = NoCall
  /\ \E docs \in SortDocs, orderBy \in SortOrders : sortCall(docs, orderBy)

SpecSort == Init /\ [][NextSort]_vars

\* The two documents hold different numbers, or different strings, on the field.
Differs(a, b, key) ==
  /\ Field(a, key).t = Field(b, key).t
  /\ Field(a, key).t \in {"number", "string"}
  /\ Field(a, key).v # Field(b, key).v
\* On the field and in its direction, a comes before b.
Before(a, b, by) ==
  /\ Differs(a, b, by.key)
  /\ LET va == Field(a, by.key)
         vb == Field(b, by.key)
         less == IF va.t = "number" THEN va.v < vb.v ELSE localeCompare(va.v, vb.v) < 0
     IN  less <=> by.dir = "ASC"
\* The first orderBy field on which a and b differ puts a before b.
MustPrecede(a, b, keys) ==
  \E k \in 1..Len(keys) :
    /\ \A m \in 1..(k - 1) : ~Differs(a, b, keys[m].key)
    /\ Before(a, b, keys[k])
PositionIn(seq, doc) == CHOOSE i \in 1..Len(seq) : seq[i] = doc

\* The result holds the documents of `docs`, each before the documents it must
\* precede, documents that differ on no orderBy field in the order of `docs`, and
\* the array passed in is as it was.
SortedStably(call) ==
  LET docs == call.args[1]
      keys == call.args[2]
      r == call.result
  IN  /\ Len(r) = Len(docs)
      /\ \A i \in 1..Len(docs) : \E j \in 1..Len(r) : r[j] = docs[i]
      /\ \A i, j \in 1..Len(r) : i < j => ~MustPrecede(r[j], r[i], keys)
      /\ \A i, j \in 1..Len(docs) :
           (i < j /\ \A k \in 1..Len(keys) : ~Differs(docs[i], docs[j], keys[k].key))
             => PositionIn(r, docs[i]) < PositionIn(r, docs[j])
      /\ call.after = call.args

\* On every orderBy field the documents all hold numbers, or all hold strings, or
\* none holds a number or a string.
Comparable(docs, keys) ==
  \A k \in 1..Len(keys) :
    \/ \A i \in 1..Len(docs) : Field(docs[i], keys[k].key).t = "number"
    \/ \A i \in 1..Len(docs) : Field(docs[i], keys[k].key).t = "string"
    \/ \A i \in 1..Len(docs) : Field(docs[i], keys[k].key).t \notin {"number", "string"}

whereCall(property, clause, doc) ==
  Applied("whereChecker", <<property, clause, doc>>, <<property, clause, doc>>,
          whereChecker(property, clause, doc))

Recognized ==
  {"eq", "notEq", "gt", "gte", "lt", "lte", "includes", "startsWith", "endsWith",
   "match", "in"}
NumericOps == {"gt", "gte", "lt", "lte"}
StringOps == {"includes", "startsWith", "endsWith"}

WhereOps == Recognized \cup {"wolo"}
WhereOperands ==
  {Num(0), Num(1), Str(<<1>>), Str(<<1, 2>>), Undefined, Arr(<<Num(1)>>),
   Regex(<<1>>)}
WhereValues == {Num(0), Num(1), Str(<<1>>), Str(<<2, 1>>), Undefined}
WhereEntries == {Op(name, operand) : name \in WhereOps, operand \in WhereOperands}
WhereClauses ==
  {Lit(v) : v \in WhereValues \ {Undefined}}
    \cup {Re(Regex(<<1>>))}
    \cup {Obj(<<a>>) : a \in WhereEntries}
    \cup {Obj(<<e[1], e[2]>>) :
            e \in {d \in WhereEntries \X WhereEntries : d[1].op # d[2].op}}
WhereDocs == {Doc(1, 1, f, Num(0), 0, 0) : f \in WhereValues}

NextWhere ==
  /\ applied = NoCall
  /\ \E property \in Fields, clause \in WhereClauses, doc \in WhereDocs :
       whereCall(property, clause, doc)

SpecWhere == Init /\ [][NextWhere]_vars

\* The entries of the operator object of a whereChecker call, and the field
\* value they are checked against.
EntriesOf(call) ==
  IF call.args[2].type = "object"
    THEN {call.args[2].ops[i] : i \in 1..Len(call.args[2].ops)} ELSE {}
ValueIn(call) == Field(call.args[3], call.args[1])

\* C22: an operator object holding an operator name outside the recognized set
\* (with an operand that is not undefined) makes whereChecker return false,
\* whatever the types of the operand and of the field value.
C22_UnknownOperatorNeverMatches ==
  (/\ applied.fn = "whereChecker"
   /\ \E e \in EntriesOf(applied) : e.op \notin Recognized /\ e.operand # Undefined)
    => applied.result = FALSE

\* C23: gt, gte, lt, lte given an operand and a field value that are not both
\* numbers, and includes, startsWith, endsWith given an operand and a field value
\* that are not both strings, make whereChecker return false (operands that are
\* undefined left aside).
C23_MismatchedTypesNeverMatch ==
  applied.fn = "whereChecker" =>
    \A e \in EntriesOf(applied) :
      (/\ e.operand # Undefined
       /\ \/ e.op \in NumericOps
             /\ ~(e.operand.t = "number" /\ ValueIn(applied).t = "number")
          \/ e.op \in StringOps
             /\ ~(e.operand.t = "string" /\ ValueIn(applied).t = "string"))
        => applied.result = FALSE

\* ------------------------------------------------- create, read back
\* read(id) gives a document with that identifier, the fields of input and equal
\* timestamps.
ReadsBack(docs, id, input) ==
  /\ Has(docs, id)
  /\ read(docs, id)._id = id
  /\ read(docs, id).f = input.f /\ read(docs, id).g = input.g
  /\ read(docs, id).createdAt = read(docs, id).updatedAt

\* The payload a create was called with, as the suspended write holds it.
InputOf(w) == [f |-> w.after.f, g |-> w.after.g]

\* This step is the call of create(input) that was given the identifier _id.
CreateCalled(input, _id) ==
  /\ outcome'.call = "create" /\ outcome'.id = _id
  /\ create(input, _id, clock)

\* This step is the commit of the suspended create p.
CreateCommitted(p) ==
  /\ p.kind = "create"
  /\ outcome'.call = "create" /\ outcome'.result = "returned"
  /\ Settle(p, "truthy")

\* The call of create stores the payload under an identifier the store did not
\* hold, and a create that awaits its synchronizer holds that document.
CreateApplies ==
  \A input \in Inputs, _id \in EventIds :
    CreateCalled(input, _id) =>
      /\ ~Has(documents, _id)
      /\ ReadsBack(documents', _id, input)
      /\ "create" \in syncers =>
           \E p \in pending' : p.kind = "create" /\ p.id = _id /\ InputOf(p) = input

StampedInputs ==
  UNION {{[i \in 1..n |-> PopulateElem(a[i], i, t[i])] :
            a \in [1..n -> EventIds], t \in [1..n -> 0..MaxTime]} : n \in 0..MaxPopulate}

NextStamps ==
  \/ \E input \in Inputs, _id \in FreshEventIds :
       Room("create") /\ create(input, _id, clock) /\ UNCHANGED <<bulk, applied>>
  \/ \E id \in EventIds, patch \in Patches, now \in clock..MaxTime :
       Room("update") /\ update(id, patch, now) /\ UNCHANGED <<bulk, applied>>
  \/ \E id \in EventIds : Room("remove") /\ remove(id) /\ UNCHANGED <<bulk, applied>>
  \/ \E p \in pending, res \in Results : Settle(p, res) /\ UNCHANGED <<bulk, applied>>
  \/ \E input \in StampedInputs : populate(input) /\ UNCHANGED <<bulk, applied>>
  \/ clear /\ UNCHANGED <<bulk, applied>>

SpecStamps == Init /\ [][NextStamps]_vars

\* The fields an update must leave alone.
Unpatched(before, patch) == DOMAIN before \ (DOMAIN patch \cup {"updatedAt", "ref"})
KeepsUnpatched(before, after, patch) ==
  \A field \in Unpatched(before, patch) : after[field] = before[field]

\* This step commits an update that took the document from before to after:
\* the call itself without a synchronizer for update, else the continuation of
\* the suspended update once its synchronizer resolved truthy.
UpdateCommitted(before, after, patch) ==
  /\ outcome'.call = "update" /\ outcome'.result = "returned"
  /\ \/ /\ "update" \notin syncers
        /\ before = read(documents, outcome'.id)
        /\ after = read(documents', outcome'.id)
        /\ \E now \in 0..MaxTime : update(outcome'.id, patch, now)
     \/ \E p \in pending :
          /\ p.kind = "update" /\ p.before = before /\ p.after = after /\ p.patch = patch
          /\ Settle(p, "truthy")

\* The writes this step could commit.
Committable ==
  {[before |-> p.before, after |-> p.after, patch |-> p.patch] :
     p \in {q \in pending : q.kind = "update"}}
    \cup {[before |-> read(documents, id), after |-> read(documents', id), patch |-> patch] :
            id \in {i \in EventIds : Has(documents, i) /\ Has(documents', i)},
            patch \in Patches}

\* C25: every committed update leaves updatedAt greater than or equal to what it
\* was before the update, and keeps every field the patch does not name,
\* whether the document was created or populated with the caller's timestamps.
C25_UpdatedAtNeverDecreases ==
  [][\A w \in Committable :
       UpdateCommitted(w.before, w.after, w.patch) =>
         /\ w.after.updatedAt >= w.before.updatedAt
         /\ KeepsUnpatched(w.before, w.after, w.patch)]_vars

\* ------------------------------------------------- populate
\* This step is a call of populate(input) that returned.
Populated(input) ==
  /\ outcome'.call = "populate" /\ outcome'.result = "returned"
  /\ populate(input)

\* The last element of the array that carries the identifier.
LastWith(input, id) ==
  input[CHOOSE i \in 1..Len(input) :
          input[i]._id = id /\ \A j \in (i + 1)..Len(input) : input[j]._id # id]

\* C26: after populate, the document stored under each identifier of the array
\* is the last element of the array with that identifier, whether or not the
\* store or the array held another document under it.
C26_PopulateLastWins ==
  [][outcome'.call = "populate" =>
     \A input \in PopulateInputs({NoId} \cup EventIds, clock) :
       Populated(input) =>
         \A i \in 1..Len(input) :
           /\ Has(documents', input[i]._id)
           /\ ValueOf(read(documents', input[i]._id)) = LastWith(input, input[i]._id)]_vars

\* populate was called with two elements, its handler was told so, and the one
\* document of the store is the second element.
C26_Witness ==
  /\ outcome.call = "populate" /\ outcome.result = "returned"
  /\ \E i \in 1..Len(delivered) :
       delivered[i].event = "populate" /\ delivered[i].payload.count = 2
  /\ Len(documents) = 1
  /\ read(documents, 1).f = Num(1)

\* The synchronizer calls that are in flight.
InFlight(ps) == {<<p.kind, p.id>> : p \in ps}

\* C27: a populate that returns starts no synchronizer call, and the only handler
\* calls it makes are one call of each handler subscribed to populate, with the
\* number of elements of the array as count: no create, update, remove or
\* syncError event and no per-document listener, even for identifiers it
\* overwrites.
C27_PopulateFiresOnlyPopulate ==
  [][outcome'.call = "populate" =>
     \A input \in PopulateInputs(EventIds, clock) :
       Populated(input) =>
         /\ InFlight(pending') = InFlight(pending)
         /\ Cardinality(pending') = Cardinality(pending)
         /\ \A i \in 1..Len(delivered') :
              /\ delivered'[i].event = "populate"
              /\ delivered'[i].payload = [count |-> Len(input)]
         /\ \A fn \in Fns :
              Cardinality(CallsOf(delivered', "populate", fn))
                = IF fn \in Subscribers("populate") THEN 1 ELSE 0]_vars

\* populate overwrote the one document of the store while a handler listened to
\* its identifier and another was subscribed to populate; the only call made is
\* the populate event, with count 2.
C27_Witness ==
  /\ outcome.call = "populate" /\ outcome.result = "returned"
  /\ 1 \in DOMAIN docListeners
  /\ Subscribers("populate") # {}
  /\ Len(documents) = 1 /\ read(documents, 1).f = Num(1)
  /\ Len(delivered) = 1
  /\ delivered[1].event = "populate" /\ delivered[1].payload.count = 2

\* ------------------------------------------------- per-document listeners
\* The collection with two document identifiers and one listen subscription at
\* a time; the clock stands still.
NextListen ==
  \/ \E input \in Inputs, _id \in FreshIds :
       Room("create") /\ create(input, _id, clock) /\ UNCHANGED <<bulk, applied>>
  \/ \E id \in Ids, patch \in Patches :
       Room("update") /\ update(id, patch, clock) /\ UNCHANGED <<bulk, applied>>
  \/ \E id \in Ids : Room("remove") /\ remove(id) /\ UNCHANGED <<bulk, applied>>
  \/ \E p \in pending, res \in Results : Settle(p, res) /\ UNCHANGED <<bulk, applied>>
  \/ \E input \in PopulateInputs(Ids, clock) : populate(input) /\ UNCHANGED <<bulk, applied>>
  \/ clear /\ UNCHANGED <<bulk, applied>>
  \/ \E id \in Ids, fn \in Fns :
       Len(tokens) < MaxTokens /\ listen(id, fn) /\ UNCHANGED <<bulk, applied>>
  \/ \E i \in 1..Len(tokens) : cancel(i) /\ UNCHANGED <<bulk, applied>>

SpecListen == Init /\ [][NextListen]_vars

\* The handlers listening to a document identifier.
Listeners(id) ==
  IF id \in DOMAIN docListeners THEN Members(listenerSets[docListeners[id]]) ELSE {}

\* The payload of the write this step commits: that of the suspended write whose
\* synchronizer resolved truthy, or of the create or remove just called without
\* a synchronizer.
CommittedPayloads ==
  IF outcome'.call \notin Kinds \/ outcome'.result # "returned" THEN {}
  ELSE IF outcome'.call \in syncers
    THEN {Payload(p) : p \in {q \in pending : /\ q.kind = outcome'.call
                                              /\ q.id = outcome'.id
                                              /\ Settle(q, "truthy")}}
  ELSE IF outcome'.call = "create"
    THEN {[doc |-> ValueOf(read(documents', outcome'.id))]}
    ELSE {[doc |-> ValueOf(read(documents, outcome'.id))]}

InStoreOrder(docs, hits) ==
  SelectSeq(DocValues(docs), LAMBDA doc : \E i \in 1..Len(hits) : hits[i] = doc)

\* C29: without orderBy, query(where) returns its documents in the insertion
\* order of the store, whether the candidates came from the index or from a full
\* scan.
C29_QueryInStoreOrder ==
  \A where \in Wheres :
    LET hits == query(indexedFields, indexes, documents, where)
    IN  hits = InStoreOrder(documents, hits)

\* Where-clauses that put an indexable operator next to one the index cannot
\* answer, in the same field.
MixedClause == Obj(<<Op("in", Arr(<<Num(1), Num(0)>>)), Op("notEq", Num(0))>>)
RecheckWheres ==
  Wheres \cup {<<Entry("f", MixedClause)>>,
               <<Entry("f", Obj(<<Op("eq", Num(1)), Op("gt", Num(1))>>))>>,
               <<Entry("f", MixedClause), Entry("g", Obj(<<Op("gt", Num(0))>>))>>}

\* C30: every document query(where) returns is in the store and passes
\* whereChecker for every field of where, the fields whose candidates came from
\* the index included.
C30_QueryReturnsOnlyMatches ==
  \A where \in RecheckWheres :
    LET hits == query(indexedFields, indexes, documents, where)
    IN  \A i \in 1..Len(hits) :
          /\ \E k \in 1..Len(documents) : documents[k].v = hits[i]
          /\ \A j \in 1..Len(where) :
               whereChecker(where[j].key, where[j].clause, hits[i])

\* The index proposes two candidates for a clause on an indexed field and the
\* check of the whole clause keeps one of them.
C30_Witness ==
  /\ "f" \in indexedFields
  /\ LET where == <<Entry("f", MixedClause)>>
         candidateIds == getCandidateIds(indexedFields, indexes, where)
     IN  /\ ~candidateIds.null
         /\ Len(candidateIds.ids) = 2
         /\ Len(query(indexedFields, indexes, documents, where)) = 1

\* ------------------------------------------------- bulk operations, serial
\* The collection where update and remove are called by updateMany / removeMany
\* only, next to create, with room for MaxOverlap suspended writes.
NextMany ==
  \/ \E input \in Inputs, _id \in FreshIds :
       RoomOverlap("create") /\ create(input, _id, clock) /\ UNCHANGED <<bulk, applied>>
  \/ \E p \in pending, res \in Results : BulkSettle(p, res) /\ UNCHANGED applied
  \/ \E where \in BulkWheres, patch \in Patches :
       RoomOverlap("update") /\ updateMany(where, patch) /\ UNCHANGED applied
  \/ \E where \in BulkWheres : RoomOverlap("remove") /\ removeMany(where) /\ UNCHANGED applied
  \/ RoomOverlap(bulk.kind) /\ BulkNext /\ UNCHANGED applied

SpecMany == Init /\ [][NextMany]_vars

\* The suspended writes the bulk operation started.
BulkWrites(ps) == {p \in ps : p.kind \in {"update", "remove"}}
TargetsOf(b) == {b.targets[i] : i \in 1..Len(b.targets)}

\* C31: the targets of updateMany / removeMany are fixed by the query(where) of
\* the call; update / remove is called for targets only, one at a time, the next
\* one only after the previous one has committed, so at most one synchronizer
\* call of the bulk operation is pending, and a document that matches where
\* later is not written.
C31_BulkIsSerialOverFixedTargets ==
  [][/\ Cardinality(BulkWrites(pending')) <= 1
     /\ bulk'.attempted \subseteq TargetsOf(bulk')
     /\ ~BulkIdle => bulk'.targets = bulk.targets
     /\ IsCallOf(outcome', {"update", "remove"})
          => /\ BulkWrites(pending) = {}
             /\ outcome'.call = bulk'.kind
             /\ outcome'.id \in TargetsOf(bulk') /\ outcome'.id \in bulk'.attempted
             /\ ~BulkIdle => bulk.state = "ready"
     /\ (bulk.state = "awaiting" /\ bulk'.state = "ready")
          => /\ outcome'.call = bulk.kind /\ outcome'.id = bulk.current
             /\ outcome'.result = "returned"]_vars

\* updateMany has resolved after it wrote its one target, and the store holds
\* another document that matches every where-clause and was not written.
C31_Witness ==
  /\ bulk.call = "updateMany" /\ bulk.state = "resolved"
  /\ Len(bulk.targets) = 1 /\ bulk.attempted = TargetsOf(bulk)
  /\ bulk.patch = [x \in {"f"} |-> Num(1)]
  /\ Has(documents, bulk.targets[1])
  /\ read(documents, bulk.targets[1]).f = Num(1)
  /\ \E k \in 1..Len(documents) :
       /\ documents[k].k \notin TargetsOf(bulk)
       /\ \A where \in BulkWheres : Matches(where, documents[k].v)

\* ------------------------------------------------- reverts
\* The documents of a store, in order, whatever objects hold them.
Contents(docs) == [i \in 1..Len(docs) |-> ValueOf(docs[i].v)]

\* Two outcomes of a continuation leave the same documents and index buckets.
SameState(a, b) == Contents(a.docs) = Contents(b.docs) /\ SameBuckets(a.idx, b.idx)

\* C32: whatever ran while a write was suspended, its synchronizer resolving
\* falsy and its synchronizer rejecting leave the same documents and the same
\* index buckets.
C32_FalsyAndRejectRevertAlike ==
  \A p \in pending :
    LET st == [docs |-> documents, idx |-> indexes]
    IN  SameState(OnFalsy(p, st), OnReject(p, st, "cause"))

\* ------------------------------------------------- identifiers
\* The patches of a caller that also names _id: Partial<T> is not checked at
\* run time.
IdPatches ==
  Patches \cup {[x \in {"_id"} |-> i] : i \in Ids}
          \cup {[x \in {"_id", "f"} |-> IF x = "_id" THEN i ELSE Num(1)] : i \in Ids}

NextPatch ==
  \/ \E input \in Inputs, _id \in FreshIds :
       Room("create") /\ create(input, _id, clock) /\ UNCHANGED <<bulk, applied>>
  \/ \E id \in Ids, patch \in IdPatches :
       Room("update") /\ update(id, patch, clock) /\ UNCHANGED <<bulk, applied>>
  \/ \E id \in Ids : Room("remove") /\ remove(id) /\ UNCHANGED <<bulk, applied>>
  \/ \E p \in pending, res \in Results : Settle(p, res) /\ UNCHANGED <<bulk, applied>>

SpecPatch == Init /\ [][NextPatch]_vars

\* C33: every document of the store is stored under its own identifier,
\* whatever the patches of the updates contained.
C33_StoredUnderOwnId ==
  \A k \in 1..Len(documents) : documents[k].v._id = documents[k].k

\* ------------------------------------------------- index buckets
\* C34: no bucket of any indexed field is empty: a value whose last identifier
\* left, through remove, update, a revert or clear, has no key in the index.
C34_NoEmptyBucket ==
  \A field \in DOMAIN indexes : \A val \in DOMAIN indexes[field] :
    Len(indexes[field][val]) > 0

\* A committed update moved the only document from the bucket of 0 to the bucket
\* of 1 of the indexed field f, and the bucket of 0 is gone.
C34_Witness ==
  /\ outcome.call = "update" /\ outcome.result = "returned"
  /\ \E i \in 1..Len(delivered) :
       /\ delivered[i].event = "update"
       /\ delivered[i].payload.before.f = Num(0)
       /\ delivered[i].payload.after.f = Num(1)
  /\ Len(documents) = 1
  /\ DOMAIN indexes["f"] = {Num(1)}

\* C35: every identifier held in a bucket of the index is the identifier of a
\* document in the store, also after overlapping writes have committed or
\* reverted.
C35_NoDanglingIds ==
  \A id \in IndexedIds(indexes) : Has(documents, id)

\* The last step was a write to the document of the suspended write p that was
\* called without a synchronizer and so committed at once, while p was suspended.
CommittedMeanwhile(p) ==
  /\ outcome.call \in Kinds \ syncers
  /\ outcome.result = "returned"
  /\ outcome.id = p.id

\* C36: when a write to the same document has been applied and has committed
\* while a write was suspended, the failure of the suspended write leaves the
\* documents and the index buckets as the committed write left them.
C36_RevertKeepsCommittedWrites ==
  [][\A p \in pending :
       (CommittedMeanwhile(p) /\ FailedSettle(p))
         => /\ Contents(documents') = Contents(documents)
            /\ SameBuckets(indexes', indexes)]_vars

\* C37: a document that is not in the store comes into it only by a create, by
\* a populate, or by the revert of its own remove: no other step, the revert of
\* an update that was suspended when the document was removed included, brings
\* a removed document back.
C37_RemovedStaysRemoved ==
  [][\A id \in Ids :
       (~Has(documents, id) /\ Has(documents', id))
         => \/ outcome'.call \in {"create", "populate"}
            \/ /\ outcome'.call = "remove" /\ outcome'.id = id
               /\ outcome'.result = "syncError"]_vars

\* query({}) on the store docs, each document by its value.
QueryAll(idx, docs) ==
  LET hits == query(indexedFields, idx, docs, <<>>)
  IN  [i \in 1..Len(hits) |-> ValueOf(hits[i])]

\* C38: when a write is reverted and nothing else ran while it was suspended,
\* query({}) returns the documents it returned before the write, in the same
\* order.
C38_RevertRestoresQueryOrder ==
  [][\A p \in pending :
       (p.touched = "nothing" /\ FailedSettle(p))
         => QueryAll(indexes', documents') = QueryAll(p.snap.idx, p.snap.docs)]_vars

\* ------------------------------------------------------- handlers that throw
\* Some handler called in `for (const fn of fns) fn(payload)` throws.
Threw(calls, throwers) == \E i \in 1..Len(calls) : calls[i].fn \in throwers

\* The calls made before the loop is left: all of them, or those up to the first
\* handler that throws; the exception leaves emit / notifyDocListeners and
\* whatever called them.
UpToThrow(calls, throwers) ==
  IF Threw(calls, throwers)
    THEN SubSeq(calls, 1, CHOOSE i \in 1..Len(calls) :
                            /\ calls[i].fn \in throwers
                            /\ \A j \in 1..(i - 1) : calls[j].fn \notin throwers)
    ELSE calls

\* What the caller sees of a write whose last notifications were calls: the
\* result, or the rejection with what the handler threw.
Ended(w, calls, throwers, result, error, touched) ==
  IF Threw(calls, throwers)
    THEN [Outcome(w.kind, w.id, "handlerError", touched) EXCEPT !.error = "HandlerError"]
    ELSE [Outcome(w.kind, w.id, result, touched) EXCEPT !.error = error]

\* Apply(w, docs, idx) when the handlers in throwers throw: the commit
\* notifications are outside the try block.
ApplyThrows(w, docs, idx, throwers) ==
  \E v \in {w} :
    IF v.kind \in syncers
      THEN Step(docs, idx, Join(v), <<>>,
                Outcome(v.kind, v.id, "awaiting", "nothing"))
      ELSE Step(docs, idx, Touch(pending, {v.id}), UpToThrow(Commit(v, docs), throwers),
                Ended(v, Commit(v, docs), throwers, "returned", "none", "nothing"))

createThrows(input, _id, now, throwers) ==
  /\ _id \notin UsedIds
  /\ LET doc == Doc(_id, FreshRef, input.f, input.g, now, now)
     IN  ApplyThrows(Write("create", _id, NoDoc, doc, NoPatch),
                     MapSet(documents, _id, doc), indexAdd(indexes, doc), throwers)
  /\ clock' = now
  /\ UNCHANGED <<config, registry>>

updateThrows(id, patch, now, throwers) ==
  /\ updateValid(id)
  /\ \E before \in {read(documents, id)} :
       \E after \in {Spread(before, patch, FreshRef, now)} :
         ApplyThrows(Write("update", id, before, after, patch),
                     MapSet(documents, id, after), indexUpdate(indexes, before, after), throwers)
  /\ clock' = now
  /\ UNCHANGED <<config, registry>>

removeThrows(id, throwers) ==
  /\ removeValid(id)
  /\ LET doc == read(documents, id)
     IN  ApplyThrows(Write("remove", id, doc, NoDoc, NoPatch),
                     MapDelete(documents, id), indexRemove(indexes, doc), throwers)
  /\ UNCHANGED <<config, registry, clock>>

\* The falsy branch when handlers throw: what emit('syncError') throws inside
\* the try block is caught by the catch block, which emits syncError again.
OnFalsyThrows(w, st, throwers) ==
  LET r == Revert(w, st)
      first == SyncError(w, "SyncReturnedFalse", r.docs)
      err == IF Threw(first, throwers) THEN "HandlerError" ELSE "SynchronizationError"
      c == Catch(w, r, err)
  IN  [docs |-> c.docs, idx |-> c.idx, last |-> c.calls, error |-> Thrown(err),
       calls |-> UpToThrow(first, throwers) \o UpToThrow(c.calls, throwers)]

\* SettleWith(p, res, cause) when the handlers in throwers throw.
SettleThrows(p, res, cause, throwers) ==
  /\ LET st == [docs |-> documents, idx |-> indexes]
         r == CASE res = "truthy" ->
                     [docs |-> documents, idx |-> indexes, last |-> Commit(p, documents),
                      error |-> "none",
                      calls |-> UpToThrow(Commit(p, documents), throwers)]
                [] res = "falsy" -> OnFalsyThrows(p, st, throwers)
                [] res = "rejects" ->
                     LET c == OnReject(p, st, cause)
                     IN  [docs |-> c.docs, idx |-> c.idx, last |-> c.calls,
                          error |-> Thrown(cause),
                          calls |-> UpToThrow(c.calls, throwers)]
     IN  Step(r.docs, r.idx, Leave(p), r.calls,
              Ended(p, r.last, throwers,
                    IF res = "truthy" THEN "returned" ELSE "syncError", r.error, p.touched))
  /\ UNCHANGED <<config, registry, clock>>

\* The collection with handlers that may throw on any call.
NextThrows ==
  \/ \E input \in Inputs, _id \in FreshIds, throwers \in SUBSET Fns :
       Room("create") /\ createThrows(input, _id, clock, throwers) /\ UNCHANGED <<bulk, applied>>
  \/ \E id \in Ids, patch \in Patches, throwers \in SUBSET Fns :
       Room("update") /\ updateThrows(id, patch, clock, throwers) /\ UNCHANGED <<bulk, applied>>
  \/ \E id \in Ids, throwers \in SUBSET Fns :
       Room("remove") /\ removeThrows(id, throwers) /\ UNCHANGED <<bulk, applied>>
  \/ \E p \in pending, res \in Results, throwers \in SUBSET Fns :
       SettleThrows(p, res, "cause", throwers) /\ UNCHANGED <<bulk, applied>>
  \/ \E event \in EventTypes, fn \in Fns :
       Len(tokens) < MaxTokens /\ on(event, fn) /\ UNCHANGED <<bulk, applied>>
  \/ \E id \in Ids, fn \in Fns :
       Len(tokens) < MaxTokens /\ listen(id, fn) /\ UNCHANGED <<bulk, applied>>

SpecThrows == Init /\ [][NextThrows]_vars

\* The write the call that has just ended was about: the suspended write it
\* continued, or the write it applied and committed in one step.
EndedWrite ==
  IF outcome'.call \in syncers
    THEN CHOOSE p \in pending : p.kind = outcome'.call /\ p.id = outcome'.id
    ELSE [kind |-> outcome'.call, id |-> outcome'.id, before |-> read(documents, outcome'.id)]

\* The effect of the write w is not in the store docs nor in the index idx.
Undone(w, docs, idx) ==
  CASE w.kind = "create" -> ~Has(docs, w.id) /\ w.id \notin IndexedIds(idx)
    [] w.kind = "update" -> ValueOf(read(docs, w.id)) = ValueOf(w.before)
    [] w.kind = "remove" -> Has(docs, w.id) /\ w.id \in IndexedIds(idx)

\* C39: a write that rejects because a handler threw, with nothing else run on
\* the collection since it was called, has left no effect in the store or the
\* index: a call reported as failed has been undone.
C39_HandlerThrowKeepsAgreement ==
  [][(/\ outcome'.call \in Kinds
      /\ outcome'.result = "handlerError"
      /\ outcome'.touched = "nothing")
       => Undone(EndedWrite, documents', indexes')]_vars

=============================================================================
